---------------------------- MODULE Spec2Model ----------------------------
(***************************************************************************)
(* Model of bank_account_PDF_to_CSV.py: the line parser (parse_lines), the *)
(* rule store (split_rules.json), the enricher (enrich_bookings with its   *)
(* operator prompts) and the CSV writer.                                   *)
(*                                                                         *)
(* A Python str is a sequence of one-character strings, so that slicing,   *)
(* searching, stripping and replacing are computed as Python computes      *)
(* them.  The rule document is a sequence of [key, value] entries in       *)
(* insertion order (the order json.load / dict iteration preserves).       *)
(***************************************************************************)
EXTENDS Integers, Sequences, FiniteSets, TLC

VARIABLES
    lines,        \* the text lines of the statement (output of pdf_to_text)
    pos,          \* index of the next line the for loop of parse_lines reads
    current,      \* parse_lines: <<>> for None, <<b>> for the open booking b
    bookings,     \* the list of bookings (parse_lines result, then enriched)
    pc,           \* position of main: "parse", "parsed", "enrich", "write", "done"
    rules,        \* content of split_rules.json
    interactive,  \* the interactive argument of enrich_bookings
    idx,          \* enrich_bookings: index of the next booking of the for loop
    log,          \* history: per enriched booking, what enrich_bookings did
    csv           \* rows written by write_csv (without the header row)

vars == <<lines, pos, current, bookings, pc, rules, interactive, idx, log, csv>>

-----------------------------------------------------------------------------
(* Bounds of the model *)

MaxLines == 4       \* longest statement, in lines
MaxShifts == 1      \* most split-point adjustments the operator enters

-----------------------------------------------------------------------------
(* Python str primitives *)

Min(a, b) == IF a < b THEN a ELSE b
Max(a, b) == IF a > b THEN a ELSE b

Whitespace == {" ", "\t"}
Digits == {"0","1","2","3","4","5","6","7","8","9"}
UpperCase == <<"A","B","C","D","E","F","G","H","I","J","K","L","M","N","O","P","Q","R","S","T","U","V","W","X","Y","Z">>
LowerCase == <<"a","b","c","d","e","f","g","h","i","j","k","l","m","n","o","p","q","r","s","t","u","v","w","x","y","z">>

\* s[:n]
Prefix(s, n) == SubSeq(s, 1, Min(Max(n, 0), Len(s)))
\* s[n:]
Suffix(s, n) == SubSeq(s, Min(Max(n, 0), Len(s)) + 1, Len(s))

\* s.lstrip(chars), s.rstrip(chars)
lstrip(s, chars) ==
    LET keep == {i \in 1..Len(s) : s[i] \notin chars}
    IN IF keep = {} THEN <<>>
       ELSE SubSeq(s, CHOOSE i \in keep : \A j \in keep : i <= j, Len(s))
rstrip(s, chars) ==
    LET keep == {i \in 1..Len(s) : s[i] \notin chars}
    IN IF keep = {} THEN <<>>
       ELSE SubSeq(s, 1, CHOOSE i \in keep : \A j \in keep : j <= i)
\* s.strip()
strip(s) == lstrip(rstrip(s, Whitespace), Whitespace)

\* A sequence given as a function on 1..n, as a tuple
Tuple(f, n) == SubSeq(f, 1, n)

\* c.lower() for one character, s.lower()
lowerChar(c) ==
    IF \E i \in 1..26 : UpperCase[i] = c
    THEN LowerCase[CHOOSE i \in 1..26 : UpperCase[i] = c]
    ELSE c
lower(s) == Tuple([i \in 1..Len(s) |-> lowerChar(s[i])], Len(s))

\* the 0-based offsets at which sub occurs in s
Occurrences(s, sub) ==
    {i \in 0..(Len(s) - Len(sub)) : SubSeq(s, i + 1, i + Len(sub)) = sub}
\* sub in s
Contains(s, sub) == Occurrences(s, sub) # {}
\* s.rfind(sub): the last offset, -1 when absent
rfind(s, sub) ==
    LET occ == Occurrences(s, sub)
    IN IF occ = {} THEN -1 ELSE CHOOSE i \in occ : \A j \in occ : j <= i

\* s.replace(old, new) for a one-character old
RECURSIVE replace(_, _, _)
replace(s, old, new) ==
    IF s = <<>> THEN <<>>
    ELSE (IF Head(s) = old THEN new ELSE <<Head(s)>>) \o replace(Tail(s), old, new)

-----------------------------------------------------------------------------
(* The regular expressions *)

\* DATE_RE.match(line): ^\d{2}\.\d{2}\.\d{4}
DATE_RE(line) ==
    /\ Len(line) >= 10
    /\ \A i \in {1, 2, 4, 5, 7, 8, 9, 10} : line[i] \in Digits
    /\ line[3] = "." /\ line[6] = "."

\* AMOUNT_RE = -?\d{1,3}(?:\.\d{3})*,\d{2}, matched as the backtracking
\* engine does: each operator yields the offset just after the match that
\* starts at p (1-based), 0 when there is none.
AmountFraction(s, p) ==
    IF p + 2 <= Len(s) /\ s[p] = "," /\ s[p+1] \in Digits /\ s[p+2] \in Digits
    THEN p + 3 ELSE 0
AmountGroup(s, p) ==
    p + 3 <= Len(s) /\ s[p] = "." /\ \A k \in 1..3 : s[p+k] \in Digits
RECURSIVE AmountGroups(_, _)
AmountGroups(s, p) ==      \* (?:\.\d{3})* greedy, then ,\d{2}
    IF AmountGroup(s, p) /\ AmountGroups(s, p + 4) # 0
    THEN AmountGroups(s, p + 4)
    ELSE AmountFraction(s, p)
AmountDigits(s, p) ==      \* \d{1,3} greedy: three digits, then two, then one
    LET try(d) == IF p + d - 1 <= Len(s) /\ \A k \in 0..(d-1) : s[p+k] \in Digits
                  THEN AmountGroups(s, p + d) ELSE 0
    IN IF try(3) # 0 THEN try(3) ELSE IF try(2) # 0 THEN try(2) ELSE try(1)
AmountMatch(s, p) ==       \* -? greedy
    IF s[p] = "-" /\ AmountDigits(s, p + 1) # 0
    THEN AmountDigits(s, p + 1)
    ELSE AmountDigits(s, p)

\* AMOUNT_RE.findall(s): the non-overlapping matches, left to right
RECURSIVE AmountFindFrom(_, _)
AmountFindFrom(s, p) ==
    IF p > Len(s) THEN <<>>
    ELSE IF AmountMatch(s, p) # 0
         THEN <<SubSeq(s, p, AmountMatch(s, p) - 1)>> \o AmountFindFrom(s, AmountMatch(s, p))
         ELSE AmountFindFrom(s, p + 1)
AMOUNT_RE_findall(s) == AmountFindFrom(s, 1)

\* The literal alternatives of END_MARKER_RE
EndMarkerPhrases == {
    <<"K","o","n","t","o","s","t","a","n","d"," ","a","m">>,
    <<"G","e","s","a","m","t","u","m","s","a","t","z","s","u","m","m","e","n">>,
    <<"I","h","r"," ","D","i","s","p","o","s","i","t","i","o","n","s","k","r","e","d","i","t">>,
    <<"H","i","n","w","e","i","s","e"," ","z","u","m"," ","K","o","n","t","o","a","u","s","z","u","g">>,
    <<"D","e","u","t","s","c","h","e"," ","K","r","e","d","i","t","b","a","n","k"," ","A","G">> }

\* The alternative Seite \d+ von, on a lower-cased line
SeiteVon(low) ==
    \E i \in Occurrences(low, <<"s","e","i","t","e"," ">>) :
        \E n \in 1..(Len(low) - i - 6) :
            /\ \A k \in 1..n : low[i + 6 + k] \in Digits
            /\ SubSeq(low, i + 7 + n, Min(i + 10 + n, Len(low))) = <<" ","v","o","n">>

\* END_MARKER_RE.search(line), re.IGNORECASE
EndMarkerPhrasesLower == {lower(p) : p \in EndMarkerPhrases}
END_MARKER_RE(line) ==
    LET low == lower(line)
    IN \/ \E p \in EndMarkerPhrasesLower : Contains(low, p)
       \/ SeiteVon(low)

-----------------------------------------------------------------------------
(* Pure functions of the program *)

\* The value of a key a booking does not have yet (b.get yields its default)
Absent == <<"<absent>">>

LeadingPunctuation == {" ", ",", ".", ";", ":", "-", "/", ")", "_"}

clean_description(text) ==
    IF text = <<>> THEN <<>> ELSE lstrip(text, LeadingPunctuation)

normalize_amount(val) ==
    IF val = <<>> THEN <<>>
    ELSE replace(replace(val, ".", <<>>), ",", <<".">>)

\* Mutant of NewBooking: the amount is stored in both fields
NewBookingBothFields(line) ==
    LET rest    == strip(Suffix(line, 10))
        amounts == AMOUNT_RE_findall(rest)
        amount  == IF amounts = <<>> THEN <<>> ELSE normalize_amount(amounts[Len(amounts)])
    IN [ Datum        |-> Prefix(line, 10),
         Buchungsart  |-> strip(Prefix(rest, 20)),
         Textblock    |-> <<>>,
         Soll         |-> amount,
         Haben        |-> amount,
         Name         |-> Absent,
         Beschreibung |-> Absent ]

\* The booking a date-start line opens (parse_lines, the `if` branch)
NewBooking(line) ==
    LET rest    == strip(Suffix(line, 10))
        amounts == AMOUNT_RE_findall(rest)
        last    == amounts[Len(amounts)]
        isDebit == amounts # <<>> /\ Contains(last, <<"-">>)
    IN [ Datum        |-> Prefix(line, 10),
         Buchungsart  |-> strip(Prefix(rest, 20)),
         Textblock    |-> <<>>,
         Soll         |-> IF isDebit THEN normalize_amount(last) ELSE <<>>,
         Haben        |-> IF amounts # <<>> /\ ~isDebit THEN normalize_amount(last) ELSE <<>>,
         Name         |-> Absent,
         Beschreibung |-> Absent ]

\* Mutant of AddText: the lines are joined without the separating space
AddTextNoSpace(b, clean) == [b EXCEPT !.Textblock = b.Textblock \o clean]

\* The open booking with one more continuation line (already trimmed)
AddText(b, clean) ==
    [b EXCEPT !.Textblock = IF b.Textblock # <<>> THEN b.Textblock \o <<" ">> \o clean
                            ELSE clean]

-----------------------------------------------------------------------------
(* The rule store *)

\* Python's None, and the truth value of an Optional[str]
None == <<"<None>">>
Truthy(x) == x # None /\ x # <<>>

\* Code-point order of the characters, for sorted()
CodeOrder == <<" ", ")", ",", "-", ".", "/">> \o <<"0","1","2","3","4","5","6","7","8","9">> \o <<":", ";">> \o UpperCase \o <<"_">> \o LowerCase
Ord(c) == CHOOSE i \in 1..Len(CodeOrder) : CodeOrder[i] = c
\* a < b on str
StrLess(a, b) ==
    \E n \in 0..Min(Len(a), Len(b)) :
        /\ \A i \in 1..n : a[i] = b[i]
        /\ \/ n = Len(a) /\ n < Len(b)
           \/ n < Len(a) /\ n < Len(b) /\ Ord(a[n+1]) < Ord(b[n+1])
\* sorted(S) for a set of str
RECURSIVE Sorted(_)
Sorted(S) ==
    IF S = {} THEN <<>>
    ELSE LET least == CHOOSE x \in S : \A y \in S \ {x} : StrLess(x, y)
         IN <<least>> \o Sorted(S \ {least})

Keys(db) == {db[i].key : i \in 1..Len(db)}

\* load_declarations: the unique display names, alphabetically
load_declarations(db) == Sorted({db[i].value : i \in 1..Len(db)})

\* Mutant of save_reference: the rewritten document is lost
save_reference_lost(db, key, value) == db

\* save_reference: load the document, upsert, rewrite it in full
save_reference(db, key, value) ==
    IF key \in Keys(db)
    THEN Tuple([i \in 1..Len(db) |-> IF db[i].key = key THEN [key |-> key, value |-> value]
                                     ELSE db[i]], Len(db))
    ELSE Append(db, [key |-> key, value |-> value])

\* apply_split_rule: <<value, rest>> of the first key, in document order,
\* that occurs in the text; <<None, None>> when there is none
apply_split_rule(text, db) ==
    LET hits == {i \in 1..Len(db) : Contains(text, db[i].key)}
    IN IF hits = {} THEN <<None, None>>
       ELSE LET i == CHOOSE h \in hits : \A g \in hits : h <= g
            IN <<db[i].value, strip(Suffix(text, Len(db[i].key)))>>

-----------------------------------------------------------------------------
(* The fuzzy shortlist *)

FuzzyLimit == 5
ThresholdNum == 2      \* threshold 0.4 = ThresholdNum / ThresholdDen
ThresholdDen == 5

\* SequenceMatcher.find_longest_match on a[alo:ahi], b[blo:bhi] (0-based,
\* no junk): the longest block, earliest in a, then earliest in b
BlockAt(a, b, i, j, k) == SubSeq(a, i + 1, i + k) = SubSeq(b, j + 1, j + k)
LongestLen(a, b, alo, ahi, blo, bhi) ==
    LET ks == {k \in 1..Min(ahi - alo, bhi - blo) :
                 \E i \in alo..(ahi - k), j \in blo..(bhi - k) : BlockAt(a, b, i, j, k)}
    IN IF ks = {} THEN 0 ELSE CHOOSE k \in ks : \A m \in ks : m <= k
LongestA(a, b, alo, ahi, blo, bhi, k) ==
    LET is == {i \in alo..(ahi - k) : \E j \in blo..(bhi - k) : BlockAt(a, b, i, j, k)}
    IN CHOOSE i \in is : \A m \in is : i <= m
LongestB(a, b, i, blo, bhi, k) ==
    LET js == {j \in blo..(bhi - k) : BlockAt(a, b, i, j, k)}
    IN CHOOSE j \in js : \A m \in js : j <= m

\* The total size of get_matching_blocks
RECURSIVE Matches(_, _, _, _, _, _)
Matches(a, b, alo, ahi, blo, bhi) ==
    LET k == LongestLen(a, b, alo, ahi, blo, bhi)
        i == LongestA(a, b, alo, ahi, blo, bhi, k)
        j == LongestB(a, b, i, blo, bhi, k)
    IN IF k = 0 THEN 0
       ELSE k + Matches(a, b, alo, i, blo, j) + Matches(a, b, i + k, ahi, j + k, bhi)

\* fuzzy_score(a, b) = ratio() = 2.0 * M / T (1.0 when T = 0), kept as the
\* fraction <<2 * M, T>>
fuzzy_score(a, b) ==
    IF Len(a) + Len(b) = 0 THEN <<1, 1>>
    ELSE <<2 * Matches(lower(a), lower(b), 0, Len(a), 0, Len(b)), Len(a) + Len(b)>>
ScoreLess(x, y) == x[1] * y[2] < y[1] * x[2]

\* get_fuzzy_declarations: the names scoring at least the threshold, by
\* descending score (stable), at most FuzzyLimit of them
get_fuzzy_declarations(text, db) ==
    LET names  == load_declarations(db)
        score  == Tuple([i \in 1..Len(names) |-> fuzzy_score(text, names[i])], Len(names))
        passed == {i \in 1..Len(names) : ~ScoreLess(score[i], <<ThresholdNum, ThresholdDen>>)}
        rank(i) == Cardinality({j \in passed :
                     \/ ScoreLess(score[i], score[j])
                     \/ j < i /\ ~ScoreLess(score[j], score[i])})
        sorted == Tuple([r \in 1..Cardinality(passed) |->
                     names[CHOOSE i \in passed : rank(i) = r - 1]], Cardinality(passed))
    IN Prefix(sorted, FuzzyLimit)

-----------------------------------------------------------------------------
(* The operator prompts *)

\* The prompt is repeated: the input was rejected and nothing is returned
Reprompt == <<"<reprompt>">>

\* int(choice) - 1 for a one-digit answer
ChoiceIndex(c) == (CHOOSE d \in 0..9 : CodeOrder[6 + d + 1] = c) - 1
Picks(choice, list) ==
    choice \in Digits /\ 0 <= ChoiceIndex(choice) /\ ChoiceIndex(choice) < Len(list)

\* ask_user_select_declaration(text), where fuzzy is what
\* get_fuzzy_declarations(text) returns and names what load_declarations()
\* returns; the operator answers `choice` at the shortlist prompt and
\* `choiceAll` at the full list
ask_user_select_declaration(fuzzy, names, choice, choiceAll) ==
    LET fromAll == IF names = <<>> THEN None
                   ELSE IF Picks(choiceAll, names) THEN names[ChoiceIndex(choiceAll) + 1]
                   ELSE None
    IN IF fuzzy # <<>>
       THEN IF Picks(choice, fuzzy) THEN fuzzy[ChoiceIndex(choice) + 1]
            ELSE IF choice = "a" THEN fromAll
            ELSE IF choice = "n" THEN None
            ELSE Reprompt
       ELSE fromAll

\* The split point after the operator's adjustments
RECURSIVE ShiftSplit(_, _, _)
ShiftSplit(split, shifts, len) ==
    IF shifts = <<>> THEN split
    ELSE ShiftSplit(Max(0, Min(len, split + Head(shifts))), Tail(shifts), len)

SplitIdx(text, marker, shifts) ==
    ShiftSplit(rfind(lower(text), lower(marker)) + Len(marker), shifts, Len(text))
\* key and rest of ask_user_for_split
SplitKey(text, marker, shifts) == strip(Prefix(text, SplitIdx(text, marker, shifts)))
SplitRest(text, marker, shifts) == strip(Suffix(text, SplitIdx(text, marker, shifts)))

\* ask_user_for_split on the trimmed Textblock: <<name, rest, key>>, where
\* selected is what ask_user_select_declaration(key) returns and name the
\* operator's answer to the last prompt
ask_user_for_split(text, marker, shifts, selected, name) ==
    LET key  == SplitKey(text, marker, shifts)
        rest == SplitRest(text, marker, shifts)
    IN IF marker = <<>> THEN <<None, None, None>>
       ELSE IF rfind(lower(text), lower(marker)) = -1 THEN Reprompt
       ELSE IF selected = Reprompt THEN Reprompt
       ELSE IF Truthy(selected) THEN <<selected, rest, key>>
       ELSE IF name = <<>> THEN <<key, rest, key>>
       ELSE <<name, rest, key>>

-----------------------------------------------------------------------------
(* Inputs *)

HdrDebit  == <<"0","1",".","0","2",".","2","0","2","4"," ","K","a","r","t","e","n","z","a","h","l","u","n","g"," ","1",".","0","0","0",",","0","0"," ","-","1",".","2","3","4",",","5","6">>
HdrCredit == <<"0","3",".","0","4",".","2","0","2","4"," ","L","o","h","n"," ","1","2",",","0","0">>
HdrPlain  == <<"0","5",".","0","6",".","2","0","2","4"," ","S","e","i","t","e"," ","1"," ","v","o","n"," ","2">>
TextLine  == <<" "," ","A","M","A","Z","O","N",","," ","E","U"," ">>
NoiseLine == <<" ","x">>
EndLine   == <<" ","k","o","n","t","o","s","t","a","n","d"," ","A","M">>

LineUniverse == {HdrDebit, HdrCredit, HdrPlain, TextLine, NoiseLine, EndLine}

RECURSIVE SeqsUpTo(_, _)
SeqsUpTo(S, n) ==
    IF n = 0 THEN {<<>>}
    ELSE LET shorter == SeqsUpTo(S, n - 1)
         IN shorter \cup {Append(s, x) : s \in shorter, x \in S}

Statements == SeqsUpTo(LineUniverse, MaxLines)

\* The rule documents the run starts from: no document, a rule that occurs
\* in no text, and two rules that both occur in TextLine
InitialDocs == {
    <<>>,
    << [key |-> <<"A","M","Z","N">>, value |-> <<"A","m","a","z","o","n">>] >>,
    << [key |-> <<"E","U">>, value |-> <<"E","u","r","o","p","a">>],
       [key |-> <<"A","M","A","Z","O","N">>, value |-> <<"A","m","a","z","o","n">>] >> }

\* The operator's answers (each already trimmed, as input().strip() leaves it)
MarkerInputs    == { <<>>, <<"o","n">>, <<"z","z">> }
ShiftInputs     == { -1, 1, -50 }
ShiftSeqs       == SeqsUpTo(ShiftInputs, MaxShifts)
ChoiceInputs    == { "1", "a", "n", "x" }
ChoiceAllInputs == { "1", "2", "n" }
NameInputs      == { <<>>, <<"S","h","o","p">> }

-----------------------------------------------------------------------------
(* parse_lines, one action per iteration of its for loop *)

Line == rstrip(lines[pos], Whitespace)
Reading == pc = "parse" /\ pos <= Len(lines)

\* A date-start line: close the open booking, open a new one
ParseDateLine ==
    /\ Reading
    /\ DATE_RE(Line)
    /\ bookings' = (IF current # <<>> THEN Append(bookings, current[1]) ELSE bookings)
    /\ current' = <<NewBooking(Line)>>
    /\ pos' = pos + 1
    /\ UNCHANGED <<lines, pc, rules, interactive, idx, log, csv>>

\* Mutant of ParseEndMarker: the booking is closed but the loop goes on
ParseEndMarkerNoBreak ==
    /\ Reading
    /\ ~DATE_RE(Line) /\ current # <<>>
    /\ END_MARKER_RE(Line)
    /\ bookings' = Append(bookings, current[1])
    /\ current' = <<>>
    /\ pos' = pos + 1
    /\ UNCHANGED <<lines, pc, rules, interactive, idx, log, csv>>

\* An end marker while a booking is open: close it and leave the loop
ParseEndMarker ==
    /\ Reading
    /\ ~DATE_RE(Line) /\ current # <<>>
    /\ END_MARKER_RE(Line)
    /\ bookings' = Append(bookings, current[1])
    /\ current' = <<>>
    /\ pc' = "parsed"
    /\ UNCHANGED <<lines, pos, rules, interactive, idx, log, csv>>

\* A continuation line shorter than 2 characters after trimming
ParseNoise ==
    /\ Reading
    /\ ~DATE_RE(Line) /\ current # <<>>
    /\ ~END_MARKER_RE(Line)
    /\ Len(strip(Line)) < 2
    /\ pos' = pos + 1
    /\ UNCHANGED <<lines, current, bookings, pc, rules, interactive, idx, log, csv>>

\* Any other continuation line
ParseText ==
    /\ Reading
    /\ ~DATE_RE(Line) /\ current # <<>>
    /\ ~END_MARKER_RE(Line)
    /\ Len(strip(Line)) >= 2
    /\ current' = <<AddText(current[1], strip(Line))>>
    /\ pos' = pos + 1
    /\ UNCHANGED <<lines, bookings, pc, rules, interactive, idx, log, csv>>

\* A line that is no date-start line while no booking is open
ParseOrphan ==
    /\ Reading
    /\ ~DATE_RE(Line) /\ current = <<>>
    /\ pos' = pos + 1
    /\ UNCHANGED <<lines, current, bookings, pc, rules, interactive, idx, log, csv>>

\* The loop ran out of lines
ParseExhausted ==
    /\ pc = "parse" /\ pos > Len(lines)
    /\ pc' = "parsed"
    /\ UNCHANGED <<lines, pos, current, bookings, rules, interactive, idx, log, csv>>

\* After the loop: emit the booking still open, return, and main calls
\* enrich_bookings
ParseReturn ==
    /\ pc = "parsed"
    /\ bookings' = (IF current # <<>> THEN Append(bookings, current[1]) ELSE bookings)
    /\ \E i \in BOOLEAN : interactive' = i
    /\ pc' = "enrich"
    /\ UNCHANGED <<lines, pos, current, rules, idx, log, csv>>

-----------------------------------------------------------------------------
(* enrich_bookings, one action per iteration of its for loop.  The rule    *)
(* document is read afresh in every iteration: `rules` is the document.    *)

Enriching == pc = "enrich" /\ idx <= Len(bookings)
Text == strip(bookings[idx].Textblock)
Label == apply_split_rule(Text, rules)[1]
Rest == apply_split_rule(Text, rules)[2]

Entry(kind, key, value) == [kind |-> kind, key |-> key, value |-> value]

\* A rule matches: label from the rule store
EnrichRule ==
    /\ Enriching
    /\ Truthy(Label)
    /\ bookings' = [bookings EXCEPT ![idx].Name = Label,
                                    ![idx].Beschreibung = clean_description(Rest)]
    /\ log' = Append(log, Entry("rule", None, Label))
    /\ idx' = idx + 1
    /\ UNCHANGED <<lines, pos, current, pc, rules, interactive, csv>>

\* What ask_user_select_declaration(key) can return (or Reprompt), over the
\* operator's answers to its two prompts
Selections(key, db) ==
    LET fuzzy == get_fuzzy_declarations(key, db)
        names == load_declarations(db)
    IN { ask_user_select_declaration(fuzzy, names, choice, choiceAll) :
            choice \in ChoiceInputs, choiceAll \in ChoiceAllInputs }

\* The name the booking gets when the operator has resolved it
ResolvedName(name, key) == key

\* No rule matches, the operator resolves the booking: label it, save the rule
EnrichResolve ==
    /\ Enriching
    /\ ~Truthy(Label) /\ interactive
    /\ \E marker \in MarkerInputs, shifts \in ShiftSeqs :
        \E selected \in Selections(SplitKey(Text, marker, shifts), rules), name \in NameInputs :
            LET r == ask_user_for_split(Text, marker, shifts, selected, name)
            IN /\ r # Reprompt
               /\ Truthy(r[1])
               /\ bookings' = [bookings EXCEPT ![idx].Name = ResolvedName(r[1], r[3]),
                                               ![idx].Beschreibung = clean_description(r[2])]
               /\ rules' = save_reference(rules, r[3], r[1])
               /\ log' = Append(log, Entry(IF Truthy(selected) THEN "selected" ELSE "named",
                                           r[3], r[1]))
    /\ idx' = idx + 1
    /\ UNCHANGED <<lines, pos, current, pc, interactive, csv>>

\* Mutant of EnrichAbort: the booking is left unlabelled, as when
\* interactive is off
EnrichAbortUnlabelled ==
    /\ Enriching
    /\ ~Truthy(Label) /\ interactive
    /\ \E marker \in MarkerInputs, shifts \in ShiftSeqs :
        \E selected \in Selections(SplitKey(Text, marker, shifts), rules), name \in NameInputs :
            LET r == ask_user_for_split(Text, marker, shifts, selected, name)
            IN /\ r # Reprompt
               /\ ~Truthy(r[1])
               /\ log' = Append(log, Entry(IF marker = <<>> THEN "abort" ELSE "unnamed",
                                           r[3], None))
    /\ idx' = idx + 1
    /\ UNCHANGED <<lines, pos, current, bookings, pc, rules, interactive, csv>>

\* No rule matches and the prompts return no name: the operator gave an
\* empty marker ("abort"), or left both the key and the name empty ("unnamed")
EnrichAbort ==
    /\ Enriching
    /\ ~Truthy(Label) /\ interactive
    /\ \E marker \in MarkerInputs, shifts \in ShiftSeqs :
        \E selected \in Selections(SplitKey(Text, marker, shifts), rules), name \in NameInputs :
            LET r == ask_user_for_split(Text, marker, shifts, selected, name)
            IN /\ r # Reprompt
               /\ ~Truthy(r[1])
               /\ log' = Append(log, Entry(IF marker = <<>> THEN "abort" ELSE "unnamed",
                                           r[3], None))
    /\ bookings' = [bookings EXCEPT ![idx].Name = Text, ![idx].Beschreibung = <<>>]
    /\ idx' = idx + 1
    /\ UNCHANGED <<lines, pos, current, pc, rules, interactive, csv>>

\* No rule matches and interactive is off: the booking is left as it is
EnrichSilent ==
    /\ Enriching
    /\ ~Truthy(Label) /\ ~interactive
    /\ log' = Append(log, Entry("silent", None, None))
    /\ idx' = idx + 1
    /\ UNCHANGED <<lines, pos, current, bookings, pc, rules, interactive, csv>>

\* The loop is over: enrich_bookings returns and main calls write_csv
EnrichReturn ==
    /\ pc = "enrich" /\ idx > Len(bookings)
    /\ pc' = "write"
    /\ UNCHANGED <<lines, pos, current, bookings, rules, interactive, idx, log, csv>>

\* b.get(field, "")
Get(v) == IF v = Absent THEN <<>> ELSE v

\* The row write_csv writes for a booking (without Quelldatei)
CsvRow(b) ==
    [ Datum |-> b.Datum, Buchungsart |-> b.Buchungsart,
      Name |-> strip(Get(b.Name)), Beschreibung |-> strip(Get(b.Beschreibung)),
      Betrag_Soll_EUR |-> b.Soll, Betrag_Haben_EUR |-> b.Haben ]

write_csv ==
    /\ pc = "write"
    /\ csv' = Tuple([i \in 1..Len(bookings) |-> CsvRow(bookings[i])], Len(bookings))
    /\ pc' = "done"
    /\ UNCHANGED <<lines, pos, current, bookings, rules, interactive, idx, log>>

-----------------------------------------------------------------------------

Init ==
    /\ lines \in Statements
    /\ pos = 1
    /\ current = <<>>
    /\ bookings = <<>>
    /\ pc = "parse"
    /\ rules \in InitialDocs
    /\ interactive = TRUE
    /\ idx = 1
    /\ log = <<>>
    /\ csv = <<>>

Next ==
    \/ ParseDateLine
    \/ ParseEndMarker
    \/ ParseNoise
    \/ ParseText
    \/ ParseOrphan
    \/ ParseExhausted
    \/ ParseReturn
    \/ EnrichRule
    \/ EnrichResolve
    \/ EnrichAbort
    \/ EnrichSilent
    \/ EnrichReturn
    \/ write_csv

Spec == Init /\ [][Next]_vars

-----------------------------------------------------------------------------
(* What the statement says about its records, read off `lines` alone *)

\* The lines of the universe that start with a date, those that are end
\* markers, and the last amount on each date-start line (<<>> if none)
DateLines == {l \in LineUniverse : DATE_RE(rstrip(l, Whitespace))}
MarkerLines == {l \in LineUniverse \ DateLines : END_MARKER_RE(rstrip(l, Whitespace))}
LastAmounts ==
    { <<l, LET amounts == AMOUNT_RE_findall(strip(Suffix(rstrip(l, Whitespace), 10)))
           IN IF amounts = <<>> THEN <<>> ELSE amounts[Len(amounts)]>> : l \in DateLines }
LastAmount(l) == (CHOOSE p \in LastAmounts : p[1] = l)[2]

IsDateLine(i) == lines[i] \in DateLines
IsMarkerLine(i) == lines[i] \in MarkerLines

\* The first end-marker line met while a record is open; Len(lines) + 1 if none
Cut ==
    LET ms == {m \in 1..Len(lines) : IsMarkerLine(m) /\ \E d \in 1..(m-1) : IsDateLine(d)}
    IN IF ms = {} THEN Len(lines) + 1 ELSE CHOOSE m \in ms : \A n \in ms : m <= n

\* The date-start lines before it, in input order
RECURSIVE DateLinesFrom(_, _)
DateLinesFrom(i, to) ==
    IF i >= to THEN <<>>
    ELSE (IF IsDateLine(i) THEN <<i>> ELSE <<>>) \o DateLinesFrom(i + 1, to)
Headers == DateLinesFrom(1, Cut)

\* The line that ends the k-th record (the next header, or cut)
RecordEnd(hs, cut, k) == IF k < Len(hs) THEN hs[k + 1] ELSE cut

RECURSIVE JoinFrom(_, _, _)
\* The trimmed lines i..(to - 1) of at least 2 characters, joined onto acc by spaces
JoinFrom(acc, i, to) ==
    IF i >= to THEN acc
    ELSE LET clean == strip(lines[i])
         IN JoinFrom(IF Len(clean) < 2 THEN acc
                     ELSE IF acc = <<>> THEN clean
                     ELSE acc \o <<" ">> \o clean, i + 1, to)

Returned == pc \in {"enrich", "write", "done"}

-----------------------------------------------------------------------------
(* Claims *)

\* C1: within one interactive run, once a record has been resolved by the
\* operator and its rule K -> name saved, every later record whose Textblock
\* contains K is labelled from the rule store, without a prompt.  (Every
\* document of InitialDocs has non-empty display names.)
C1_LearnedRuleApplies ==
    \A i \in 1..Len(log), j \in 1..Len(log) :
        (i < j /\ log[i].kind \in {"selected", "named"}
               /\ Contains(bookings[j].Textblock, log[i].key))
        => /\ log[j].kind = "rule"
           /\ \E r \in 1..Len(rules) : /\ Contains(bookings[j].Textblock, rules[r].key)
                                       /\ bookings[j].Name = rules[r].value

C1_Witness ==
    \E i \in 1..Len(log), j \in 1..Len(log) :
        /\ i < j /\ log[i].kind = "named" /\ log[i].key # <<>>
        /\ Contains(bookings[j].Textblock, log[i].key)
        /\ log[j].kind = "rule" /\ bookings[j].Name = log[i].value

\* C2: whenever some trigger key occurs in the text, rule application yields
\* the display value of the first such key in document order, and as
\* description the text after that key's occurrence, trimmed and with the
\* leading punctuation stripped -- wherever the key occurs.
C2_RuleApplication ==
    (Enriching /\ \E r \in 1..Len(rules) : Contains(Text, rules[r].key))
    => LET first == CHOOSE r \in 1..Len(rules) :
                       /\ Contains(Text, rules[r].key)
                       /\ \A q \in 1..(r-1) : ~Contains(Text, rules[q].key)
           key   == rules[first].key
           at    == CHOOSE o \in Occurrences(Text, key) : \A n \in Occurrences(Text, key) : o <= n
       IN /\ Label = rules[first].value
          /\ clean_description(Rest)
               = lstrip(strip(Suffix(Text, at + Len(key))), LeadingPunctuation)

\* C3: when the operator resolves a record by selecting an existing display
\* name N for key K, the record's name is N, its description the cleaned
\* residual text, and the rule K -> N is in the rule document.
C3_SelectedNameLabels ==
    \A j \in 1..Len(log) :
        log[j].kind = "selected"
        => /\ bookings[j].Name = log[j].value
           /\ \E r \in 1..Len(rules) : rules[r] = [key |-> log[j].key, value |-> log[j].value]

\* C4: with interactive mode off and no rule matching, the record ends with
\* name = its full Textblock and description = the empty string.
C4_SilentKeepsText ==
    \A j \in 1..Len(log) :
        log[j].kind = "silent"
        => /\ Get(bookings[j].Name) = bookings[j].Textblock
           /\ Get(bookings[j].Beschreibung) = <<>>

\* C5: parse_lines emits, in input order, exactly one record per date-start
\* line before the first end marker met while a record is open, dated by that
\* line's first 10 characters; it reads no line after that marker; a record
\* still open at the end of the input is emitted too.
C5_OneRecordPerDateLine ==
    LET cut == Cut
        hs  == Headers
    IN /\ pos <= cut
       /\ Len(bookings) <= Len(hs)
       /\ \A k \in 1..Len(bookings) : bookings[k].Datum = Prefix(lines[hs[k]], 10)
       /\ Returned => Len(bookings) = Len(hs) /\ pos = cut

C5_Witness ==
    /\ pc = "done"
    /\ Cut < Len(lines)
    /\ \E i \in (Cut + 1)..Len(lines) : IsDateLine(i)
    /\ Len(bookings) = 2

\* C6 (as claimed): the Textblock of every emitted record is the header
\* line's remainder followed by the record's continuation lines, joined by
\* whitespace.
C6_TextblockWithHeader ==
    LET cut == Cut
        hs  == Headers
    IN \A k \in 1..Len(bookings) :
        bookings[k].Textblock
          = JoinFrom(strip(Suffix(rstrip(lines[hs[k]], Whitespace), 10)),
                     hs[k] + 1, RecordEnd(hs, cut, k))

\* C6 (amended): the Textblock of every emitted record is the single-space
\* join of its continuation lines alone, each trimmed and of at least 2
\* characters, none an end marker; this holds in every state after the record
\* was emitted, so enrichment never changes it.
C6_TextblockOfContinuations ==
    LET cut == Cut
        hs  == Headers
    IN \A k \in 1..Len(bookings) :
        bookings[k].Textblock = JoinFrom(<<>>, hs[k] + 1, RecordEnd(hs, cut, k))

C6_Witness ==
    /\ pc = "done"
    /\ lines = <<HdrCredit, TextLine, NoiseLine, TextLine>>
    /\ bookings[1].Textblock = strip(TextLine) \o <<" ">> \o strip(TextLine)
    /\ bookings[1].Name \notin {Absent, bookings[1].Textblock}

\* C7: Soll and Haben are never both non-empty, in every emitted record and
\* in the record being built: the last amount match of the header line fills
\* Soll only if it contains a minus sign and Haben only otherwise, and a
\* header without an amount leaves both empty.
AmountFields(b, header) ==
    LET last  == LastAmount(header)
        minus == \E i \in 1..Len(last) : last[i] = "-"
    IN /\ ~(b.Soll # <<>> /\ b.Haben # <<>>)
       /\ last = <<>> => b.Soll = <<>> /\ b.Haben = <<>>
       /\ last # <<>> /\ minus => b.Soll # <<>> /\ b.Haben = <<>>
       /\ last # <<>> /\ ~minus => b.Soll = <<>> /\ b.Haben # <<>>
C7_AmountFieldsExclusive ==
    LET hs == Headers
    IN /\ \A k \in 1..Len(bookings) : AmountFields(bookings[k], lines[hs[k]])
       /\ (pc = "parse" /\ current # <<>>)
          => AmountFields(current[1],
                          lines[CHOOSE i \in 1..(pos-1) :
                                  IsDateLine(i) /\ \A j \in (i+1)..(pos-1) : ~IsDateLine(j)])

C7_Witness ==
    /\ pc = "parse" /\ current # <<>> /\ current[1].Haben # <<>>
    /\ \E k \in 1..Len(bookings) : bookings[k].Soll # <<>> /\ lines[Headers[k]] = HdrDebit
    /\ \E k \in 1..Len(bookings) : bookings[k].Soll = <<>> /\ bookings[k].Haben = <<>>

\* C8: for a header whose last amount match is negative, Soll is the
\* normalized magnitude without a minus sign.
C8_DebitWithoutSign ==
    LET hs == Headers
    IN \A k \in 1..Len(bookings) :
        LET last == LastAmount(lines[hs[k]])
        IN (last # <<>> /\ last[1] = "-")
           => /\ bookings[k].Soll = normalize_amount(Tail(last))
              /\ \A i \in 1..Len(bookings[k].Soll) : bookings[k].Soll[i] # "-"

\* C9: enriching a record leaves the rule document unchanged whenever a rule
\* matched it or the operator aborted with an empty marker; after the abort
\* the record's name is its full Textblock and its description is empty.
C9_RuleDocumentFrame ==
    [][ (Len(log') = Len(log) + 1 /\ log'[Len(log')].kind \in {"rule", "abort"})
        => /\ rules' = rules
           /\ log'[Len(log')].kind = "abort"
              => /\ bookings'[idx].Name = bookings[idx].Textblock
                 /\ bookings'[idx].Beschreibung = <<>> ]_vars

C9_Witness ==
    /\ rules # <<>>
    /\ \E j \in 1..Len(log) : log[j].kind = "abort" /\ bookings[j].Name = bookings[j].Textblock
    /\ \E j \in 1..Len(log) : log[j].kind = "rule" /\ bookings[j].Textblock # <<>>

\* C10: every trigger key of the rule document is a non-empty string,
\* whatever the operator enters.
C10_KeysNonEmpty ==
    \A r \in 1..Len(rules) : rules[r].key # <<>>

=============================================================================
